---- MODULE Spec2Model ----
(***************************************************************************)
(* London crime dashboard (src/dashboard_code.py).                         *)
(*                                                                         *)
(* The module is a script: it loads two files, derives a Season column,    *)
(* builds four group-by aggregates, normalises borough names, merges the   *)
(* boundary table with the borough aggregate, builds the page layout and   *)
(* registers four Dash callbacks.  The model follows the script statement  *)
(* by statement (pc), then serves the page: a selection change of a        *)
(* layout control dispatches the callbacks that list it as an Input, and   *)
(* a request to the callback endpoint runs one registered callback on      *)
(* arbitrary argument values.                                              *)
(*                                                                         *)
(* Text: borough names are sequences of code points, so that str.strip,    *)
(* str.lower and the code-point order pandas sorts group keys by are       *)
(* computed and not assumed.  Season labels and crime types are strings.   *)
(* Numbers: CrimeRatePer1000 and Population are exact rationals            *)
(* [num, den]; den = 0 stands for NaN (the mean of no rows).               *)
(***************************************************************************)
EXTENDS Integers, Sequences, FiniteSets, TLC

VARIABLES
    pc,                  \* position in the script: "loaded" .. "serving"
    crime_data,          \* line 27, Season column added at line 40
    geo_df,              \* line 61, name column normalised in place at line 71
    borough_data,        \* line 43
    seasonal_data,       \* line 49
    yearly_data,         \* line 55
    borough_level_data,  \* line 64, Boroughs normalised in place at line 72
    merged_geo_df,       \* line 75
    fig,                 \* line 87: the startup map figure
    value,               \* the page: control id -> current selection
    rendered,            \* the page: output id -> rendered content
    last_event,          \* the page: the last selection change and what it recomputed
    request              \* the last request served by the callback endpoint

ModuleState ==
    <<crime_data, geo_df, borough_data, seasonal_data, yearly_data,
      borough_level_data, merged_geo_df, fig>>

vars == <<pc, crime_data, geo_df, borough_data, seasonal_data, yearly_data,
          borough_level_data, merged_geo_df, fig, value, rendered, last_event,
          request>>

\* A module-level name not bound yet.
Unbound == <<>>

-----------------------------------------------------------------------------
(* Text *)

\* str.strip() removes these from both ends: space, \t \n \v \f \r.
IsSpace(c) == c = 32 \/ c \in 9..13

\* str.lower() on one ASCII code point.
LowerChar(c) == IF c \in 65..90 THEN c + 32 ELSE c

str_lower(s) == [i \in 1..Len(s) |-> LowerChar(s[i])]

RECURSIVE LStrip(_)
LStrip(s) == IF s # <<>> /\ IsSpace(s[1]) THEN LStrip(Tail(s)) ELSE s

RECURSIVE RStrip(_)
RStrip(s) ==
    IF s # <<>> /\ IsSpace(s[Len(s)]) THEN RStrip(SubSeq(s, 1, Len(s) - 1)) ELSE s

str_strip(s) == RStrip(LStrip(s))

\* .str.strip().str.lower()
Standardize(s) == str_lower(str_strip(s))

\* Python's str order: lexicographic on code points, a proper prefix first.
RECURSIVE StrLess(_, _)
StrLess(s, t) ==
    IF t = <<>> THEN FALSE
    ELSE IF s = <<>> THEN TRUE
    ELSE IF s[1] # t[1] THEN s[1] < t[1]
    ELSE StrLess(Tail(s), Tail(t))

\* The four season labels and the crime types, each in str order.
SeasonLabels == <<"Autumn", "Spring", "Summer", "Winter">>
CrimeTypes == <<"Burglary", "Robbery">>

Rank(labels, x) == CHOOSE i \in DOMAIN labels : labels[i] = x

\* The literal 'All' of the season-tab dropdown.
ALL == <<65, 108, 108>>

-----------------------------------------------------------------------------
(* Numbers *)

RECURSIVE GCD(_, _)
GCD(a, b) == IF b = 0 THEN a ELSE GCD(b, a % b)

NaN == [num |-> 0, den |-> 0]
IsNaN(q) == q.den = 0

Rat(n, d) == IF d = 0 THEN NaN ELSE LET g == GCD(n, d) IN
    IF g = 0 THEN [num |-> 0, den |-> 1] ELSE [num |-> n \div g, den |-> d \div g]

Int2Rat(n) == [num |-> n, den |-> 1]

RatAdd(p, q) ==
    IF IsNaN(p) \/ IsNaN(q) THEN NaN
    ELSE Rat(p.num * q.den + q.num * p.den, p.den * q.den)

RatLess(p, q) == p.num * q.den < q.num * p.den

-----------------------------------------------------------------------------
(* pandas *)

\* Series.unique(): the distinct values in order of first appearance.
RECURSIVE unique(_)
unique(s) ==
    IF s = <<>> THEN <<>>
    ELSE LET u == unique(SubSeq(s, 1, Len(s) - 1))
             x == s[Len(s)]
         IN  IF \E i \in DOMAIN u : u[i] = x THEN u ELSE Append(u, x)

Column(table, col) == [i \in DOMAIN table |-> table[i][col]]

Range(s) == {s[i] : i \in DOMAIN s}

\* The largest value in place of the sum ('max' for 'sum').
RECURSIVE series_sum_max(_)
series_sum_max(s) ==
    IF s = <<>> THEN 0
    ELSE LET m == series_sum_max(Tail(s)) IN IF s[1] > m THEN s[1] ELSE m

\* Series.sum(): 0 on no rows.
RECURSIVE series_sum(_)
series_sum(s) == IF s = <<>> THEN 0 ELSE s[1] + series_sum(Tail(s))

RECURSIVE RatSum(_)
RatSum(s) == IF s = <<>> THEN Int2Rat(0) ELSE RatAdd(s[1], RatSum(Tail(s)))

\* Series.mean() of a column of rationals: NaN on no rows.
series_mean(s) ==
    IF s = <<>> THEN NaN
    ELSE LET t == RatSum(s) IN IF IsNaN(t) THEN NaN ELSE Rat(t.num, t.den * Len(s))

\* Series.max() of a column of rationals: NaN on no rows.
series_max(s) ==
    IF s = <<>> THEN NaN
    ELSE s[CHOOSE i \in DOMAIN s : \A j \in DOMAIN s : ~RatLess(s[i], s[j])]

\* The order of the values of one column: str order for names and labels,
\* numeric order for years.
ValueLess(col, a, b) ==
    CASE col = "Boroughs" -> StrLess(a, b)
      [] col = "Season" -> Rank(SeasonLabels, a) < Rank(SeasonLabels, b)
      [] col = "MajorCrime" -> Rank(CrimeTypes, a) < Rank(CrimeTypes, b)
      [] OTHER -> a < b

\* The group key of row r under groupby(by): its values in the `by` columns.
KeyOf(by, r) == [i \in DOMAIN by |-> r[by[i]]]

\* Key tuples compare column by column.
KeyLess(by, j, k) ==
    \E i \in DOMAIN by :
        /\ ValueLess(by[i], j[i], k[i])
        /\ \A h \in 1..(i - 1) : j[h] = k[h]

GroupKeys(table, by) == {KeyOf(by, table[i]) : i \in DOMAIN table}

\* groupby(by) with the default sort=True: the distinct keys in ascending order.
SortedKeys(table, by) ==
    LET S == GroupKeys(table, by)
    IN  [i \in 1..Cardinality(S) |->
            CHOOSE k \in S : Cardinality({j \in S : KeyLess(by, j, k)}) = i - 1]

\* The rows of one group, in table order.
GroupRows(table, by, k) == SelectSeq(table, LAMBDA r : KeyOf(by, r) = k)

\* table.groupby(by, as_index=False).agg(aggs): one row per key, holding the key
\* columns and, per column of aggs, the sum or the mean over the group.
groupby_agg(table, by, aggs) ==
    LET keys == SortedKeys(table, by)
    IN  [n \in DOMAIN keys |->
            LET g == GroupRows(table, by, keys[n])
            IN  [c \in Range(by) \cup DOMAIN aggs |->
                    IF c \in Range(by)
                    THEN keys[n][CHOOSE i \in DOMAIN by : by[i] = c]
                    ELSE IF aggs[c] = "sum"
                         THEN series_sum(Column(g, c))
                         ELSE series_mean(Column(g, c))]]

-----------------------------------------------------------------------------
(* Input files *)

\* Rows per crime file.
MaxRows == 2

\* Borough names of the crime file: "B " and "a".
BoroughNames == { <<66, 32>>, <<97>> }

\* Sampled observation periods: (Year, Month, CrimeCount recorded in it).
Periods == { [Year |-> 2023, Month |-> 12, CrimeCount |-> 1],
             [Year |-> 2024, Month |-> 6, CrimeCount |-> 2] }

\* One row of updated_crime_data_with_rate.csv.  The rate is the count per 1000
\* of a population of 1000.
Observation(b, p, t) ==
    [Boroughs |-> b, Year |-> p.Year, Month |-> p.Month, MajorCrime |-> t,
     CrimeCount |-> p.CrimeCount, CrimeRatePer1000 |-> Int2Rat(p.CrimeCount),
     Population |-> Int2Rat(1000)]

Observations ==
    {Observation(b, p, t) : b \in BoroughNames, p \in Periods, t \in Range(CrimeTypes)}

\* The non-empty tables of at most MaxRows rows over a set of rows.
Tables(rows) == UNION {[1..n -> rows] : n \in 1..MaxRows}

CrimeFiles == Tables(Observations)

\* Crime files that differ in the Month column only; months 0 and 13 are out of range.
MonthFiles ==
    Tables({Observation(<<97>>, [Year |-> 2024, Month |-> m, CrimeCount |-> 1], "Burglary")
                : m \in 0..13})

Boundary(n, g) == [name |-> n, geometry |-> g]

\* Boundary files: names " A", "b", "a", "C"; geometry is the polygon's number.
GeoFiles ==
    { << Boundary(<<32, 65>>, 1) >>,
      << Boundary(<<98>>, 1), Boundary(<<32, 65>>, 2) >>,
      << Boundary(<<32, 65>>, 1), Boundary(<<97>>, 2) >>,
      << Boundary(<<67>>, 1) >> }

-----------------------------------------------------------------------------
(* The script, lines 27-112 *)

\* get_season with December left out of the first list.
get_season_no_december(month) ==
    IF month \in {1, 2} THEN "Winter"
    ELSE IF month \in {3, 4, 5} THEN "Spring"
    ELSE IF month \in {6, 7, 8} THEN "Summer"
    ELSE "Autumn"

get_season(month) ==
    IF month \in {12, 1, 2} THEN "Winter"
    ELSE IF month \in {3, 4, 5} THEN "Spring"
    ELSE IF month \in {6, 7, 8} THEN "Summer"
    ELSE "Autumn"

\* groupby('Boroughs', as_index=False).agg({'CrimeCount': 'sum', 'CrimeRatePer1000': 'mean'})
agg_borough(table) ==
    groupby_agg(table, <<"Boroughs">>,
                [CrimeCount |-> "sum", CrimeRatePer1000 |-> "mean"])

\* groupby(['Boroughs', 'Season'], as_index=False).agg({... 'sum', ... 'mean'})
agg_seasonal(table) ==
    groupby_agg(table, <<"Boroughs", "Season">>,
                [CrimeCount |-> "sum", CrimeRatePer1000 |-> "mean"])

\* groupby(['Year', 'MajorCrime'], as_index=False).agg({... 'sum', ... 'mean'})
agg_yearly(table) ==
    groupby_agg(table, <<"Year", "MajorCrime">>,
                [CrimeCount |-> "sum", CrimeRatePer1000 |-> "mean"])

\* groupby('Boroughs', as_index=False).agg({'Population': 'mean', 'CrimeCount': 'sum',
\* 'CrimeRatePer1000': 'mean'})
agg_borough_level(table) ==
    groupby_agg(table, <<"Boroughs">>,
                [Population |-> "mean", CrimeCount |-> "sum", CrimeRatePer1000 |-> "mean"])

\* seasonal_data.groupby('Season', as_index=False).agg({... 'sum', ... 'mean'})
agg_season(table) ==
    groupby_agg(table, <<"Season">>,
                [CrimeCount |-> "sum", CrimeRatePer1000 |-> "mean"])

\* groupby('Boroughs', as_index=False).agg({'CrimeCount': 'sum'})
agg_count(table) == groupby_agg(table, <<"Boroughs">>, [CrimeCount |-> "sum"])

\* df[col] = df[col].str.strip().str.lower(), in place
standardize_column(table, col) ==
    [i \in DOMAIN table |-> [table[i] EXCEPT ![col] = Standardize(@)]]

\* One boundary row joined with one aggregate row.
Joined(l, r) ==
    [name |-> l.name, geometry |-> l.geometry, Boroughs |-> r.Boroughs,
     Population |-> r.Population, CrimeCount |-> r.CrimeCount,
     CrimeRatePer1000 |-> r.CrimeRatePer1000]

\* left.merge(right, left_on='name', right_on='Boroughs'): the inner join on equal
\* key values, in the order of the left rows and, for one left row, of the right rows.
RECURSIVE merge(_, _)
merge(left, right) ==
    IF left = <<>> THEN <<>>
    ELSE LET hits == SelectSeq(right, LAMBDA r : r.Boroughs = left[1].name)
         IN  [i \in DOMAIN hits |-> Joined(left[1], hits[i])] \o merge(Tail(left), right)

\* merged_geo_df.__geo_interface__: one feature per merged row.
geo_interface(table) ==
    [i \in DOMAIN table |-> [name |-> table[i].name, geometry |-> table[i].geometry]]

\* px.choropleth_mapbox(table, geojson=geojson, locations="name", ...)
choropleth_mapbox(table, geojson, title) ==
    [kind |-> "choropleth_mapbox", data |-> table, geojson |-> geojson, title |-> title]

\* px.bar / px.pie / px.line
chart(kind, table, title) == [kind |-> kind, data |-> table, title |-> title]

-----------------------------------------------------------------------------
(* The callbacks, lines 248-375 *)

\* What one run of a callback leaves: the rows its boolean mask kept, the
\* exception it raised ("" for none) and the values it returned, one per Output.
Frame(selected, raised, ret) == [selected |-> selected, raised |-> raised, ret |-> ret]

\* Series.isin(values)
isin(x, values) == \E i \in DOMAIN values : values[i] = x

\* crime_data[crime_data['MajorCrime'] == selected_crime_type]
filter_crime_type(table, selected_crime_type) ==
    SelectSeq(table, LAMBDA r : r.MajorCrime = selected_crime_type)

\* The two masks joined by | in place of &.
filter_crime_type_or_boroughs(table, selected_crime_type, selected_boroughs) ==
    SelectSeq(table, LAMBDA r : r.MajorCrime = selected_crime_type
                                \/ \E i \in DOMAIN selected_boroughs :
                                        selected_boroughs[i] = r.Boroughs)

\* crime_data[(crime_data['MajorCrime'] == t) & (crime_data['Boroughs'].isin(bs))]
filter_crime_type_boroughs(table, selected_crime_type, selected_boroughs) ==
    SelectSeq(table, LAMBDA r : r.MajorCrime = selected_crime_type
                                /\ isin(r.Boroughs, selected_boroughs))

\* The label of the last row holding the maximum.
idxmax_last(table, label, col) ==
    table[CHOOSE i \in DOMAIN table :
            /\ \A j \in DOMAIN table : table[j][col] <= table[i][col]
            /\ \A j \in (i + 1)..Len(table) : table[j][col] < table[i][col]][label]

\* Series.idxmax(): the label of the first row holding the maximum.
idxmax(table, label, col) ==
    table[CHOOSE i \in DOMAIN table :
            /\ \A j \in DOMAIN table : table[j][col] <= table[i][col]
            /\ \A j \in 1..(i - 1) : table[j][col] < table[i][col]][label]

update_seasonal_graph(selected_borough) ==
    LET filtered_data ==
            IF selected_borough = ALL
            THEN agg_season(seasonal_data)
            ELSE SelectSeq(seasonal_data, LAMBDA r : r.Boroughs = selected_borough)
    IN  Frame(IF selected_borough = ALL THEN seasonal_data ELSE filtered_data, "",
              << chart("bar", filtered_data, [borough |-> selected_borough]) >>)

update_borough_comparison(selected_crime_type, selected_boroughs) ==
    LET masked == filter_crime_type_boroughs(crime_data, selected_crime_type,
                                             selected_boroughs)
        filtered_data == agg_count(masked)
    IN  Frame(masked, "",
              << chart("bar", filtered_data, [crime_type |-> selected_crime_type]) >>)

update_statistics_and_table(selected_crime_type) ==
    LET filtered_data == filter_crime_type(crime_data, selected_crime_type)
        total_crimes == series_sum(Column(filtered_data, "CrimeCount"))
        average_crime_rate == series_mean(Column(filtered_data, "CrimeRatePer1000"))
        by_borough == agg_borough(filtered_data)
    IN  IF by_borough = <<>>
        THEN \* line 309: idxmax of an empty Series raises ValueError
             Frame(filtered_data, "ValueError", <<>>)
        ELSE Frame(filtered_data, "",
                   << [kind |-> "ul",
                       total_crimes |-> total_crimes,
                       average_crime_rate |-> average_crime_rate,
                       most_affected_borough |->
                           idxmax(by_borough, "Boroughs", "CrimeCount"),
                       highest_crime_rate |->
                           series_max(Column(by_borough, "CrimeRatePer1000"))],
                      [kind |-> "records", data |-> by_borough] >>)

update_geospatial_map(selected_crime_type) ==
    LET filtered_data == filter_crime_type(crime_data, selected_crime_type)
        borough_level_filtered == agg_borough_level(filtered_data)
        merged_filtered == merge(geo_df, borough_level_filtered)
    IN  Frame(filtered_data, "",
              << choropleth_mapbox(merged_filtered, fig.geojson,
                                   [crime_type |-> selected_crime_type]) >>)

Callbacks ==
    {"update_seasonal_graph", "update_borough_comparison",
     "update_statistics_and_table", "update_geospatial_map"}

\* The comparison callback wired to the crime-type dropdown of the statistics tab.
CallbackInputs_stats_dropdown(cb) ==
    CASE cb = "update_seasonal_graph" -> << "borough-dropdown" >>
      [] cb = "update_borough_comparison" ->
            << "crime-type-dropdown-stats", "borough-comparison-dropdown" >>
      [] cb = "update_statistics_and_table" -> << "crime-type-dropdown-stats" >>
      [] cb = "update_geospatial_map" -> << "crime-type-dropdown-map" >>

\* The Input ids of each @app.callback, in order.
CallbackInputs(cb) ==
    CASE cb = "update_seasonal_graph" -> << "borough-dropdown" >>
      [] cb = "update_borough_comparison" ->
            << "crime-type-dropdown", "borough-comparison-dropdown" >>
      [] cb = "update_statistics_and_table" -> << "crime-type-dropdown-stats" >>
      [] cb = "update_geospatial_map" -> << "crime-type-dropdown-map" >>

\* The comparison callback writing to the Output of the callback above it.
CallbackOutputs_seasonal_graph(cb) ==
    CASE cb = "update_seasonal_graph" -> << "seasonal-crime-pattern-graph" >>
      [] cb = "update_borough_comparison" -> << "seasonal-crime-pattern-graph" >>
      [] cb = "update_statistics_and_table" ->
            << "statistics-content", "crime-data-table" >>
      [] cb = "update_geospatial_map" -> << "crime-choropleth-map" >>

\* The Output ids of each @app.callback, in order.
CallbackOutputs(cb) ==
    CASE cb = "update_seasonal_graph" -> << "seasonal-crime-pattern-graph" >>
      [] cb = "update_borough_comparison" -> << "borough-comparison-bar-chart" >>
      [] cb = "update_statistics_and_table" ->
            << "statistics-content", "crime-data-table" >>
      [] cb = "update_geospatial_map" -> << "crime-choropleth-map" >>

\* The function a callback id is registered for, applied to its Input values.
Handler(cb, args) ==
    CASE cb = "update_seasonal_graph" -> update_seasonal_graph(args[1])
      [] cb = "update_borough_comparison" -> update_borough_comparison(args[1], args[2])
      [] cb = "update_statistics_and_table" -> update_statistics_and_table(args[1])
      [] cb = "update_geospatial_map" -> update_geospatial_map(args[1])

-----------------------------------------------------------------------------
(* The layout, lines 118-245 *)

borough_options == unique(Column(crime_data, "Boroughs"))
crime_options == unique(Column(crime_data, "MajorCrime"))

\* The sub-lists of a list, each in the list's order.
SubLists(s) ==
    {SelectSeq(s, LAMBDA x : x \in keep) : keep \in SUBSET Range(s)}

\* The dcc.Dropdown ids of the layout.
LayoutControls ==
    {"borough-dropdown", "crime-type-dropdown", "borough-comparison-dropdown",
     "crime-type-dropdown-stats"}

\* options= of each dropdown: the values it offers.
ControlOptions(c) ==
    CASE c = "borough-dropdown" -> {ALL} \cup Range(borough_options)
      [] c = "crime-type-dropdown" -> Range(crime_options)
      [] c = "borough-comparison-dropdown" -> SubLists(borough_options)
      [] c = "crime-type-dropdown-stats" -> Range(crime_options)

\* value= of each dropdown.
InitialValue ==
    [c \in LayoutControls |->
        CASE c = "borough-dropdown" -> ALL
          [] c = "crime-type-dropdown" -> crime_options[1]
          [] c = "borough-comparison-dropdown" ->
                SubSeq(borough_options, 1, IF Len(borough_options) < 3
                                           THEN Len(borough_options) ELSE 3)
          [] c = "crime-type-dropdown-stats" -> crime_options[1]]

NoContent == [kind |-> "none"]

\* dcc.Graph, html.Div and DataTable ids with the content the layout gives them.
LayoutContent ==
    [o \in {"borough-crime-bar-chart", "borough-pie-chart",
            "seasonal-crime-pattern-graph", "yearly-trends-graph",
            "borough-comparison-bar-chart", "statistics-content",
            "crime-data-table", "crime-choropleth-map"} |->
        CASE o = "borough-crime-bar-chart" -> chart("bar", borough_data, [static |-> TRUE])
          [] o = "borough-pie-chart" -> chart("pie", borough_data, [static |-> TRUE])
          [] o = "yearly-trends-graph" -> chart("line", yearly_data, [static |-> TRUE])
          [] o = "crime-choropleth-map" -> fig
          [] OTHER -> NoContent]

-----------------------------------------------------------------------------
(* Dash: which callbacks a page event runs, and what the page shows after *)

\* The callbacks run when control c changes: those listing c as an Input, all of
\* whose Inputs are components of the layout.
Fired(c, controls) ==
    {cb \in Callbacks : /\ isin(c, CallbackInputs(cb))
                        /\ Range(CallbackInputs(cb)) \subseteq controls}

\* The callbacks run once when the page loads.
InitiallyFired(controls) ==
    {cb \in Callbacks : Range(CallbackInputs(cb)) \subseteq controls}

Args(cb, vals) == [i \in DOMAIN CallbackInputs(cb) |-> vals[CallbackInputs(cb)[i]]]

\* The page after the callbacks in `fired` ran on the control values `vals`: each
\* Output of a callback that returned is replaced, everything else is kept.
Render(page, vals, fired) ==
    LET frames == [cb \in fired |-> Handler(cb, Args(cb, vals))]
        Writes(cb, o) == isin(o, CallbackOutputs(cb)) /\ frames[cb].raised = ""
    IN  [o \in DOMAIN page |->
            IF \E cb \in fired : Writes(cb, o)
            THEN LET cb == CHOOSE f \in fired : Writes(f, o)
                     k == CHOOSE i \in DOMAIN CallbackOutputs(cb) :
                             CallbackOutputs(cb)[i] = o
                 IN  frames[cb].ret[k]
            ELSE page[o]]

Recomputed(fired) == UNION {Range(CallbackOutputs(cb)) : cb \in fired}

\* A callback whose figure is bound to the module-level name fig (global fig).
HandlerScope_global_fig(page) ==
    /\ fig' = page["borough-comparison-bar-chart"]
    /\ UNCHANGED <<crime_data, geo_df, borough_data, seasonal_data, yearly_data,
                   borough_level_data, merged_geo_df>>

\* Lines 252-375: every name a callback assigns (filtered_data, title, fig, ...) is
\* local to it, and indexing, groupby, agg and merge return new tables.  Whatever
\* `page` the callbacks returned, the module-level names keep their values.
HandlerScope(page) == UNCHANGED ModuleState

NoEvent == [control |-> "", outputs |-> {}]
NoRequest == [callback |-> ""]

-----------------------------------------------------------------------------
(* Actions *)

InitWith(crime_files, geo_files) ==
    /\ pc = "loaded"
    /\ crime_data \in crime_files
    /\ geo_df \in geo_files
    /\ borough_data = Unbound
    /\ seasonal_data = Unbound
    /\ yearly_data = Unbound
    /\ borough_level_data = Unbound
    /\ merged_geo_df = Unbound
    /\ fig = Unbound
    /\ value = Unbound
    /\ rendered = Unbound
    /\ last_event = NoEvent
    /\ request = NoRequest

\* Lines 27 and 61: both files are read.  For the page the boundary file only
\* decides the static map, so one file with a match for every borough is read.
Init == InitWith(CrimeFiles, {<< Boundary(<<98>>, 1), Boundary(<<32, 65>>, 2) >>})

\* Lines 27 and 61, over every boundary file.
InitRequest == InitWith(CrimeFiles, GeoFiles)

\* Line 40: crime_data['Season'] = crime_data['Month'].apply(get_season)
AddSeasonColumn ==
    /\ pc = "loaded"
    /\ pc' = "seasoned"
    /\ crime_data' =
          [i \in DOMAIN crime_data |->
              LET r == crime_data[i]
              IN  [Boroughs |-> r.Boroughs, Year |-> r.Year, Month |-> r.Month,
                   MajorCrime |-> r.MajorCrime, CrimeCount |-> r.CrimeCount,
                   CrimeRatePer1000 |-> r.CrimeRatePer1000,
                   Population |-> r.Population, Season |-> get_season(r.Month)]]
    /\ UNCHANGED <<geo_df, borough_data, seasonal_data, yearly_data,
                   borough_level_data, merged_geo_df, fig, value, rendered,
                   last_event, request>>

\* Lines 43-68: the four startup aggregates.
GroupData ==
    /\ pc = "seasoned"
    /\ pc' = "grouped"
    /\ borough_data' = agg_borough(crime_data)
    /\ seasonal_data' = agg_seasonal(crime_data)
    /\ yearly_data' = agg_yearly(crime_data)
    /\ borough_level_data' = agg_borough_level(crime_data)
    /\ UNCHANGED <<crime_data, geo_df, merged_geo_df, fig, value, rendered,
                   last_event, request>>

\* Lines 71-72: both name columns are standardized in place.
StandardizeNames ==
    /\ pc = "grouped"
    /\ pc' = "standardized"
    /\ geo_df' = standardize_column(geo_df, "name")
    /\ borough_level_data' = standardize_column(borough_level_data, "Boroughs")
    /\ UNCHANGED <<crime_data, borough_data, seasonal_data, yearly_data,
                   merged_geo_df, fig, value, rendered, last_event, request>>

\* Lines 75-98: the startup merge and the startup map figure.
MergeGeo ==
    /\ pc = "standardized"
    /\ pc' = "merged"
    /\ merged_geo_df' = merge(geo_df, borough_level_data)
    /\ fig' = choropleth_mapbox(merged_geo_df', geo_interface(merged_geo_df'),
                                [static |-> TRUE])
    /\ UNCHANGED <<crime_data, geo_df, borough_data, seasonal_data, yearly_data,
                   borough_level_data, value, rendered, last_event, request>>

\* Lines 115-245 and 380: the layout is built and served; loading the page runs
\* every callback whose Inputs are in the layout, on the initial values.
ServePage ==
    /\ pc = "merged"
    /\ pc' = "serving"
    /\ value' = InitialValue
    /\ rendered' = Render(LayoutContent, InitialValue,
                          InitiallyFired(DOMAIN InitialValue))
    /\ HandlerScope(rendered')
    /\ UNCHANGED <<last_event, request>>

\* The user picks another value v in dropdown c of the page.
SelectionChange(c, v) ==
    /\ pc = "serving"
    /\ c \in DOMAIN value
    /\ v \in ControlOptions(c)
    /\ v # value[c]
    /\ LET vals == [value EXCEPT ![c] = v]
           fired == Fired(c, DOMAIN value)
       IN  /\ value' = vals
           /\ rendered' = Render(rendered, vals, fired)
           /\ last_event' = [control |-> c, outputs |-> Recomputed(fired)]
    /\ HandlerScope(rendered')
    /\ UNCHANGED <<pc, request>>

\* The arguments a request to the callback endpoint may carry for callback cb.
RequestArgs(cb) ==
    CASE cb = "update_seasonal_graph" -> {<<b>> : b \in {ALL} \cup BoroughNames}
      [] cb = "update_borough_comparison" ->
            {<<t, bs>> : t \in Range(CrimeTypes),
                         bs \in SubLists(CHOOSE l \in [1..Cardinality(BoroughNames) -> BoroughNames] :
                                                Range(l) = BoroughNames)}
      [] OTHER -> {<<t>> : t \in Range(CrimeTypes)}

\* A request to the callback endpoint (/_dash-update-component) runs the registered
\* callback cb on the values it carries, whatever the layout holds.
Dispatch(cb, args) ==
    /\ pc = "serving"
    /\ LET frame == Handler(cb, args)
       IN  request' = [callback |-> cb, args |-> args, selected |-> frame.selected,
                       raised |-> frame.raised, ret |-> frame.ret]
    /\ HandlerScope(rendered)
    /\ UNCHANGED <<pc, value, rendered, last_event>>

\* The script and a user of the served page.
Next ==
    \/ AddSeasonColumn
    \/ GroupData
    \/ StandardizeNames
    \/ MergeGeo
    \/ ServePage
    \/ \E c \in LayoutControls : \E v \in ControlOptions(c) : SelectionChange(c, v)

Spec == Init /\ [][Next]_vars

\* The script and a client of the callback endpoint.
NextRequest ==
    \/ AddSeasonColumn
    \/ GroupData
    \/ StandardizeNames
    \/ MergeGeo
    \/ ServePage
    \/ \E cb \in Callbacks : \E args \in RequestArgs(cb) : Dispatch(cb, args)

SpecRequest == InitRequest /\ [][NextRequest]_vars

\* get_season applied to a Month column.
InitSeason == InitWith(MonthFiles, {<< Boundary(<<97>>, 1) >>})

NextSeason == AddSeasonColumn

SpecSeason == InitSeason /\ [][NextSeason]_vars

-----------------------------------------------------------------------------
(* Properties *)

Seasoned == pc # "loaded"
Grouped == pc \notin {"loaded", "seasoned"}
Merged == pc \in {"merged", "serving"}

\* C1: for every month 1..12 the Season column holds one of the four labels, and
\* it is Winter exactly for 12, 1, 2, Spring for 3, 4, 5, Summer for 6, 7, 8 and
\* Autumn for 9, 10, 11.
C1_SeasonMapping ==
    Seasoned =>
        \A i \in DOMAIN crime_data :
            LET m == crime_data[i].Month
                s == crime_data[i].Season
            IN  m \in 1..12 =>
                    /\ s \in {"Winter", "Spring", "Summer", "Autumn"}
                    /\ (s = "Winter") = (m \in {12, 1, 2})
                    /\ (s = "Spring") = (m \in {3, 4, 5})
                    /\ (s = "Summer") = (m \in {6, 7, 8})
                    /\ (s = "Autumn") = (m \in {9, 10, 11})

\* A December row and a November row have been classified.
C1_Witness ==
    /\ pc = "seasoned"
    /\ \E i \in DOMAIN crime_data :
          crime_data[i].Month = 12 /\ crime_data[i].Season = "Winter"
    /\ \E i \in DOMAIN crime_data :
          crime_data[i].Month = 11 /\ crime_data[i].Season = "Autumn"

RECURSIVE CountTotal(_)
CountTotal(table) ==
    IF table = <<>> THEN 0 ELSE table[1].CrimeCount + CountTotal(Tail(table))

\* The values of row r in the columns cols.
KeyTuple(r, cols) == [i \in DOMAIN cols |-> r[cols[i]]]

\* One output row per distinct key of the input, and the same CrimeCount total.
OneRowPerKey(input, output, cols) ==
    /\ Len(output) = Cardinality({KeyTuple(input[i], cols) : i \in DOMAIN input})
    /\ CountTotal(output) = CountTotal(input)

\* The output keys are the input keys, each once.
DistinctKeys(input, output, cols) ==
    /\ {KeyTuple(output[i], cols) : i \in DOMAIN output}
          = {KeyTuple(input[i], cols) : i \in DOMAIN input}
    /\ \A i, j \in DOMAIN output :
          KeyTuple(output[i], cols) = KeyTuple(output[j], cols) => i = j

\* C2: every aggregate (per borough, per borough and season, per year and crime
\* type, per borough with population, and the filtered per-borough aggregates of
\* the comparison and statistics callbacks) has exactly one row per distinct
\* group key of its input, and its CrimeCount values add up to the CrimeCount
\* total of its input.
C2_Aggregates ==
    /\ Grouped =>
          /\ OneRowPerKey(crime_data, borough_data, <<"Boroughs">>)
          /\ DistinctKeys(crime_data, borough_data, <<"Boroughs">>)
          /\ OneRowPerKey(crime_data, seasonal_data, <<"Boroughs", "Season">>)
          /\ DistinctKeys(crime_data, seasonal_data, <<"Boroughs", "Season">>)
          /\ OneRowPerKey(crime_data, yearly_data, <<"Year", "MajorCrime">>)
          /\ DistinctKeys(crime_data, yearly_data, <<"Year", "MajorCrime">>)
          /\ OneRowPerKey(crime_data, borough_level_data, <<"Boroughs">>)
    /\ pc = "grouped" => DistinctKeys(crime_data, borough_level_data, <<"Boroughs">>)
    /\ request.callback = "update_borough_comparison" =>
          /\ OneRowPerKey(request.selected, request.ret[1].data, <<"Boroughs">>)
          /\ DistinctKeys(request.selected, request.ret[1].data, <<"Boroughs">>)
    /\ (request.callback = "update_statistics_and_table" /\ request.raised = "") =>
          /\ OneRowPerKey(request.selected, request.ret[2].data, <<"Boroughs">>)
          /\ DistinctKeys(request.selected, request.ret[2].data, <<"Boroughs">>)

\* The statistics callback has aggregated two rows of one borough into one.
C2_Witness ==
    /\ request.callback = "update_statistics_and_table"
    /\ Len(request.selected) = 2
    /\ Len(request.ret[2].data) = 1
    /\ request.ret[2].data[1].CrimeCount = 3
    /\ Len(seasonal_data) = 2

Present(t) == \E i \in DOMAIN crime_data : crime_data[i].MajorCrime = t

\* C3: the rows kept for a crime type that occurs in the data are not empty and
\* all of that type; for a type that does not occur no row is kept; with the
\* borough filter, every row kept has the type and one of the selected boroughs.
C3_Filter ==
    /\ request.callback \in {"update_statistics_and_table", "update_geospatial_map"} =>
          /\ Present(request.args[1]) =>
                /\ request.selected # <<>>
                /\ \A i \in DOMAIN request.selected :
                      /\ request.selected[i].MajorCrime = request.args[1]
                      /\ request.selected[i] \in Range(crime_data)
          /\ ~Present(request.args[1]) => request.selected = <<>>
    /\ request.callback = "update_borough_comparison" =>
          \A i \in DOMAIN request.selected :
              /\ request.selected[i].MajorCrime = request.args[1]
              /\ request.selected[i].Boroughs \in Range(request.args[2])
              /\ request.selected[i] \in Range(crime_data)

\* The comparison callback kept one row and dropped another.
C3_Witness ==
    /\ request.callback = "update_borough_comparison"
    /\ Len(request.selected) = 1
    /\ Len(crime_data) = 2
    /\ crime_data[1].MajorCrime = crime_data[2].MajorCrime
    /\ Len(request.args[2]) = 1

\* A boundary row and an aggregate row are paired in `merged` exactly when their
\* names are equal after trim + lowercase.
NormalizedJoin(boundaries, aggregate, merged) ==
    \A l \in DOMAIN boundaries, a \in DOMAIN aggregate :
        (\E m \in DOMAIN merged :
            /\ merged[m].geometry = boundaries[l].geometry
            /\ Standardize(merged[m].Boroughs) = Standardize(aggregate[a].Boroughs))
        = (Standardize(boundaries[l].name) = Standardize(aggregate[a].Boroughs))

\* The startup merge joins on normalized names.
StartupMergeNormalized ==
    Merged => NormalizedJoin(geo_df, agg_borough_level(crime_data), merged_geo_df)

\* C4: in the startup merge and in the merge of the map callback, a boundary row
\* and a borough aggregate row are paired if and only if their names are equal
\* after trim + lowercase.
C4_GeoMergeNormalized ==
    /\ StartupMergeNormalized
    /\ request.callback = "update_geospatial_map" =>
          NormalizedJoin(geo_df, agg_borough_level(request.selected),
                         request.ret[1].data)

\* C5 as stated: the outputs recomputed by selection changes of two distinct
\* controls are disjoint.
C5_DisjointRecomputation ==
    [][(last_event.control # "" /\ last_event'.control # last_event.control)
          => last_event'.outputs \cap last_event.outputs = {}]_vars

\* C5: the outputs recomputed by selection changes of two distinct controls are
\* disjoint, except for the two controls of the comparison tab, which both
\* recompute the borough comparison chart and nothing else.
C5_DisjointExceptComparison ==
    [][(/\ last_event.control # ""
        /\ last_event'.control # last_event.control
        /\ last_event'.outputs \cap last_event.outputs # {})
          => /\ {last_event.control, last_event'.control}
                  = {"crime-type-dropdown", "borough-comparison-dropdown"}
             /\ last_event'.outputs = {"borough-comparison-bar-chart"}
             /\ last_event.outputs = {"borough-comparison-bar-chart"}]_vars

\* Both comparison controls have been changed, the borough selector last.
C5_Witness ==
    /\ pc = "serving"
    /\ last_event.control = "borough-comparison-dropdown"
    /\ last_event.outputs = {"borough-comparison-bar-chart"}
    /\ value["crime-type-dropdown"] # InitialValue["crime-type-dropdown"]

\* The outputs the served surface binds to each control.
BoundOutputs(c) ==
    CASE c = "borough-dropdown" -> {"seasonal-crime-pattern-graph"}
      [] c = "crime-type-dropdown" -> {"borough-comparison-bar-chart"}
      [] c = "borough-comparison-dropdown" -> {"borough-comparison-bar-chart"}
      [] c = "crime-type-dropdown-stats" -> {"statistics-content", "crime-data-table"}
      [] c = "crime-type-dropdown-map" -> {"crime-choropleth-map"}

\* C6: a step that changes the selection of control c leaves the selection of
\* every other control and every output not bound to c as they were.
C6_OnlyBoundOutputsReplaced ==
    [][pc = "serving" =>
          \A c \in DOMAIN value :
              value'[c] # value[c] =>
                  /\ \A d \in DOMAIN value \ {c} : value'[d] = value[d]
                  /\ \A o \in DOMAIN rendered \ BoundOutputs(c) :
                        rendered'[o] = rendered[o]]_vars

\* The statistics selector and the season-tab selector have both been changed.
C6_Witness ==
    /\ pc = "serving"
    /\ value["crime-type-dropdown-stats"] # InitialValue["crime-type-dropdown-stats"]
    /\ value["borough-dropdown"] # ALL
    /\ rendered["statistics-content"].kind = "ul"
    /\ rendered["seasonal-crime-pattern-graph"].title = [borough |-> value["borough-dropdown"]]

\* C7: the served page has a map-tab crime-type selector offering the distinct
\* crime types, and the map shown is the one computed for its selection.
C7_MapSelectorServed ==
    pc = "serving" =>
        /\ "crime-type-dropdown-map" \in DOMAIN value
        /\ value["crime-type-dropdown-map"] \in Range(crime_options)
        /\ rendered["crime-choropleth-map"]
              = update_geospatial_map(value["crime-type-dropdown-map"]).ret[1]

\* C8: once the page is served, no step changes the base tables, the startup
\* aggregates, the startup merge or the startup figure.
C8_BaseTablesReadOnly ==
    [][pc = "serving" =>
          /\ crime_data' = crime_data
          /\ geo_df' = geo_df
          /\ borough_data' = borough_data
          /\ seasonal_data' = seasonal_data
          /\ yearly_data' = yearly_data
          /\ borough_level_data' = borough_level_data
          /\ merged_geo_df' = merged_geo_df
          /\ fig' = fig]_vars

\* A selection change has been served over a table with a name that is not in
\* standard form.
C8_Witness ==
    /\ pc = "serving"
    /\ last_event.control # ""
    /\ \E i \in DOMAIN crime_data :
          crime_data[i].Boroughs # Standardize(crime_data[i].Boroughs)

\* C9: the statistics callback run on a crime type with no rows does not raise;
\* it returns an empty table and NaN statistics.
C9_EmptyFilterTolerated ==
    (request.callback = "update_statistics_and_table" /\ request.selected = <<>>) =>
        /\ request.raised = ""
        /\ request.ret[2].data = <<>>
        /\ IsNaN(request.ret[1].average_crime_rate)

BoroughTotal(table, b) ==
    CountTotal(SelectSeq(table, LAMBDA r : r.Boroughs = b))

\* The boroughs of `table` whose CrimeCount total is the largest.
MostAffected(table) ==
    {b \in {table[i].Boroughs : i \in DOMAIN table} :
        \A i \in DOMAIN table : BoroughTotal(table, table[i].Boroughs) <= BoroughTotal(table, b)}

StatisticsReturned ==
    request.callback = "update_statistics_and_table" /\ request.raised = ""

\* C10 as stated: the total is the sum over the filtered rows, the borough
\* reported has the largest total, and among several such it is the one met
\* first in the filtered rows.
C10_FirstEncounteredTieBreak ==
    StatisticsReturned =>
        /\ request.ret[1].total_crimes = CountTotal(request.selected)
        /\ request.ret[1].most_affected_borough \in MostAffected(request.selected)
        /\ \E i \in DOMAIN request.selected :
              /\ request.selected[i].Boroughs = request.ret[1].most_affected_borough
              /\ \A j \in 1..(i - 1) :
                    request.selected[j].Boroughs \notin MostAffected(request.selected)

\* C10: the total is the sum over the filtered rows, the borough reported has
\* the largest total, and among several such it is the one whose name is first
\* in ascending code-point order (the order groupby sorts its keys in).
C10_SortedTieBreak ==
    StatisticsReturned =>
        /\ request.ret[1].total_crimes = CountTotal(request.selected)
        /\ request.ret[1].most_affected_borough \in MostAffected(request.selected)
        /\ \A b \in MostAffected(request.selected) :
              ~StrLess(b, request.ret[1].most_affected_borough)

\* Two boroughs tie and the one reported is not the one of the first row.
C10_Witness ==
    /\ StatisticsReturned
    /\ Cardinality(MostAffected(request.selected)) = 2
    /\ request.selected[1].Boroughs # request.ret[1].most_affected_borough

====
